---- MODULE Spec2Model ----
(***************************************************************************)
(* Model of the SentIQ unified LLM gateway (src/llm_adapter.py): the token *)
(* bucket rate limiter, the content-addressed cache, the two provider      *)
(* adapters and the router call_llm_router.                                *)
(*                                                                         *)
(* Conventions.                                                            *)
(*  - Python strings are TLA+ strings; Python's None is the value None.    *)
(*  - Token amounts are Python floats.  The model keeps them exactly, as   *)
(*    integers in units of 1/TokenScale token, and the clock in whole      *)
(*    seconds: capacity rpm is rpm * TokenScale units, the rate rpm / 60.0 *)
(*    tokens per second is rpm units per second.  Float rounding is not    *)
(*    modelled.                                                            *)
(*  - sha256 is modelled as injective: a digest is identified with the     *)
(*    string that was hashed.                                              *)
(***************************************************************************)
EXTENDS Integers, Sequences, FiniteSets, TLC

VARIABLES
    bucket,     \* the module-level TokenBucket: capacity, tokens, rate, last, lock
    now,        \* what time.time() returns, in seconds
    ticks,      \* the clock changes so far (history)
    pc,         \* each thread's position
    cn,         \* each thread's argument n of consume
    cret,       \* each thread's result of consume
    cepoch,     \* Len(ticks) when the thread's consume read the clock (history)
    avail,      \* per epoch: the tokens after the epoch's first refill (history)
    granted,    \* per epoch: consume calls that returned True (history)
    denied,     \* per epoch: consume calls that returned False (history)
    GENAI_READY,  \* GENAI_MODULE was found and GEMINI_API_KEY is not empty
    GROQ_READY,   \* the groq SDK was imported and GROQ_API_KEY is not empty
    cache,      \* the shelve file CACHE_FILE: key -> stored text
    rc,         \* each thread's call_llm_router frame (arguments, locals, history)
    budget,     \* call_llm_router calls the model still lets start
    remotes,    \* per provider: remote calls made so far (history)
    kt,         \* the pair of triples handed to _cache_key, and their keys
    host,       \* each thread's frame of the service function that calls the router
    profiles_collection,  \* db["profiles"]: the documents inserted, in order
    resumes_collection    \* db["resumes"]: the documents inserted, in order

bvars == <<bucket, now, ticks, cn, cret, cepoch, avail, granted, denied>>
rvars == <<GENAI_READY, GROQ_READY, cache, rc, budget, remotes>>
hvars == <<host, profiles_collection, resumes_collection>>
vars == <<bvars, pc, rvars, kt, hvars>>

----------------------------------------------------------------------------
(* Bounds of the model *)

NThreads == 2
MaxTicks == 1
MaxDenied == 1

Threads == 1..NThreads
ArithThreads == {1}
Epochs == 0..MaxTicks

None == "<None>"
NoThread == 0

Min(a, b) == IF a <= b THEN a ELSE b

----------------------------------------------------------------------------
(* TokenBucket *)

TokenScale == 60

\* TokenBucket.__init__(rpm): a full bucket, unlocked, stamped with the clock.
TokenBucketInit(rpm, t0) ==
    [capacity |-> rpm * TokenScale,
     tokens   |-> rpm * TokenScale,
     rate     |-> rpm,
     last     |-> t0,
     lock     |-> NoThread]

\* "with self.lock:" entered without waiting for the holder.
AcquireUnlocked(t) ==
    /\ pc[t] = "acquire"
    /\ bucket' = [bucket EXCEPT !.lock = t]
    /\ pc' = [pc EXCEPT ![t] = "refill"]
    /\ UNCHANGED <<now, ticks, cn, cret, cepoch, avail, granted, denied, rvars, kt, hvars>>

\* "with self.lock:" - blocks until the lock is free, then holds it.
Acquire(t) ==
    /\ pc[t] = "acquire"
    /\ bucket.lock = NoThread
    /\ bucket' = [bucket EXCEPT !.lock = t]
    /\ pc' = [pc EXCEPT ![t] = "refill"]
    /\ UNCHANGED <<now, ticks, cn, cret, cepoch, avail, granted, denied, rvars, kt, hvars>>

\* The refill with "self.last = now" left out: elapsed time is credited again
\* by every later call.
RefillNoStamp(t) ==
    /\ pc[t] = "refill"
    /\ LET delta == now - bucket.last
       IN bucket' = [bucket EXCEPT
                        !.tokens = Min(bucket.capacity,
                                       bucket.tokens + delta * bucket.rate)]
    /\ cepoch' = [cepoch EXCEPT ![t] = Len(ticks)]
    /\ avail' = IF Len(ticks) \in DOMAIN avail
                  THEN avail
                  ELSE avail @@ (Len(ticks) :> bucket'.tokens)
    /\ pc' = [pc EXCEPT ![t] = "check"]
    /\ UNCHANGED <<now, ticks, cn, cret, granted, denied, rvars, kt, hvars>>

\* A refill that stamps the time but adds no tokens.
RefillStampOnly(t) ==
    /\ pc[t] = "refill"
    /\ bucket' = [bucket EXCEPT !.last = now]
    /\ cepoch' = [cepoch EXCEPT ![t] = Len(ticks)]
    /\ avail' = IF Len(ticks) \in DOMAIN avail
                  THEN avail
                  ELSE avail @@ (Len(ticks) :> bucket'.tokens)
    /\ pc' = [pc EXCEPT ![t] = "check"]
    /\ UNCHANGED <<now, ticks, cn, cret, granted, denied, rvars, kt, hvars>>

\* now = time.time(); delta = now - self.last; self.last = now;
\* self.tokens = min(self.capacity, self.tokens + delta * self.rate)
Refill(t) ==
    /\ pc[t] = "refill"
    /\ LET delta == now - bucket.last
       IN bucket' = [bucket EXCEPT
                        !.last = now,
                        !.tokens = Min(bucket.capacity,
                                       bucket.tokens + delta * bucket.rate)]
    /\ cepoch' = [cepoch EXCEPT ![t] = Len(ticks)]
    /\ avail' = IF Len(ticks) \in DOMAIN avail
                  THEN avail
                  ELSE avail @@ (Len(ticks) :> bucket'.tokens)
    /\ pc' = [pc EXCEPT ![t] = "check"]
    /\ UNCHANGED <<now, ticks, cn, cret, granted, denied, rvars, kt, hvars>>

\* A consume that grants whenever the bucket holds anything at all.
CheckAnyTokens(t) ==
    /\ pc[t] = "check"
    /\ IF bucket.tokens > 0
         THEN /\ pc' = [pc EXCEPT ![t] = "subtract"]
              /\ UNCHANGED <<bucket, cret, denied>>
         ELSE /\ pc' = [pc EXCEPT ![t] = "consumed"]
              /\ cret' = [cret EXCEPT ![t] = FALSE]
              /\ denied' = [denied EXCEPT ![cepoch[t]] = @ + 1]
              /\ bucket' = [bucket EXCEPT
                              !.lock = IF bucket.lock = t THEN NoThread ELSE @]
    /\ UNCHANGED <<now, ticks, cn, cepoch, avail, granted, rvars, kt, hvars>>

\* A consume that holds the lock until the bucket has the tokens.
CheckWaits(t) ==
    /\ pc[t] = "check"
    /\ bucket.tokens >= cn[t] * TokenScale
    /\ pc' = [pc EXCEPT ![t] = "subtract"]
    /\ UNCHANGED <<bucket, cret, denied>>
    /\ UNCHANGED <<now, ticks, cn, cepoch, avail, granted, rvars, kt, hvars>>

\* if self.tokens >= n: ... (else) return False, leaving the with block
Check(t) ==
    /\ pc[t] = "check"
    /\ IF bucket.tokens >= cn[t] * TokenScale
         THEN /\ pc' = [pc EXCEPT ![t] = "subtract"]
              /\ UNCHANGED <<bucket, cret, denied>>
         ELSE /\ pc' = [pc EXCEPT ![t] = "consumed"]
              /\ cret' = [cret EXCEPT ![t] = FALSE]
              /\ denied' = [denied EXCEPT ![cepoch[t]] = @ + 1]
              /\ bucket' = [bucket EXCEPT
                              !.lock = IF bucket.lock = t THEN NoThread ELSE @]
    /\ UNCHANGED <<now, ticks, cn, cepoch, avail, granted, rvars, kt, hvars>>

\* True returned with the tokens left in the bucket.
SubtractNothing(t) ==
    /\ pc[t] = "subtract"
    /\ bucket' = [bucket EXCEPT
                    !.lock = IF bucket.lock = t THEN NoThread ELSE @]
    /\ cret' = [cret EXCEPT ![t] = TRUE]
    /\ granted' = [granted EXCEPT ![cepoch[t]] = @ + 1]
    /\ pc' = [pc EXCEPT ![t] = "consumed"]
    /\ UNCHANGED <<now, ticks, cn, cepoch, avail, denied, rvars, kt, hvars>>

\* self.tokens -= n; return True, leaving the with block
Subtract(t) ==
    /\ pc[t] = "subtract"
    /\ bucket' = [bucket EXCEPT
                    !.tokens = @ - cn[t] * TokenScale,
                    !.lock = IF bucket.lock = t THEN NoThread ELSE @]
    /\ cret' = [cret EXCEPT ![t] = TRUE]
    /\ granted' = [granted EXCEPT ![cepoch[t]] = @ + 1]
    /\ pc' = [pc EXCEPT ![t] = "consumed"]
    /\ UNCHANGED <<now, ticks, cn, cepoch, avail, denied, rvars, kt, hvars>>

\* The steps of TokenBucket.consume
consume(t) == Acquire(t) \/ Refill(t) \/ Check(t) \/ Subtract(t)

----------------------------------------------------------------------------
(* The system clock *)

\* time.time() moves by d seconds between two readings.
Tick(d) ==
    /\ Len(ticks) < MaxTicks
    /\ now' = now + d
    /\ ticks' = Append(ticks, d)
    /\ UNCHANGED <<bucket, pc, cn, cret, cepoch, avail, granted, denied, rvars, kt, hvars>>

----------------------------------------------------------------------------
(* Direct callers of bucket.consume(n) *)

\* A thread calls bucket.consume(n).
CallConsume(t, n) ==
    /\ pc[t] = "idle"
    /\ denied[Len(ticks)] < MaxDenied
    /\ cn' = [cn EXCEPT ![t] = n]
    /\ pc' = [pc EXCEPT ![t] = "acquire"]
    /\ UNCHANGED <<bucket, now, ticks, cret, cepoch, avail, granted, denied, rvars, kt, hvars>>

\* consume has returned to its direct caller.
ConsumeReturn(t) ==
    /\ pc[t] = "consumed"
    /\ pc' = [pc EXCEPT ![t] = "idle"]
    /\ UNCHANGED <<bucket, now, ticks, cn, cret, cepoch, avail, granted, denied, rvars, kt, hvars>>

----------------------------------------------------------------------------
(* Environment, cache helpers and task policies *)

\* os.getenv("GEMINI_MODEL", ...) and os.getenv("GROQ_MODEL", ...): the defaults
GEMINI_MODEL == "gemini-2.5-flash"
GROQ_MODEL == "llama-3.1-8b-instant"

\* Python truthiness of an Optional[str], and "a or b"
Falsy(s) == s = None \/ s = ""
Or(a, b) == IF Falsy(a) THEN b ELSE a

\* The string _cache_key feeds to sha256: f"{task}|{model}|{prompt}"
HashedString(prompt, task, model) == task \o "|" \o model \o "|" \o prompt

\* hashlib.sha256 of a string, modelled as injective
sha256(s) == s

\* A key that leaves the model out of the hashed string.
KeyWithoutModel(prompt, task, model) == sha256(task \o "|" \o prompt)

_cache_key(prompt, task, model) == sha256(HashedString(prompt, task, model))

\* The task set with "ats_analysis" left out.
StrictJsonTasksShort ==
    {"recruiter_eval", "profile_structuring", "achievement_rewrite",
     "resume_generation", "cover_letter_generation", "portfolio_generation"}

STRICT_JSON_TASKS ==
    {"recruiter_eval", "profile_structuring", "achievement_rewrite",
     "resume_generation", "cover_letter_generation", "portfolio_generation",
     "ats_analysis"}

simulated_response(prompt, task) ==
    IF task \in STRICT_JSON_TASKS
      THEN "{\"status\":\"simulated\",\"task\":\"" \o task \o "\"}"
      ELSE "SIMULATED RESPONSE"

JSON_PREAMBLE ==
    "SYSTEM: Respond ONLY with valid JSON. No markdown. No explanations.\n\n"

SYSTEM_OVERLOAD == "SYSTEM OVERLOAD"

----------------------------------------------------------------------------
(* Provider adapters *)

NoRequest == [provider |-> None, model |-> None, prompt |-> None,
              system |-> None, json |-> FALSE]

NoRemotes == [p \in {"gemini", "groq"} |-> 0]

\* The adapters without their configuration checks.
ConfiguredAlways(p) == TRUE

\* The checks that open _call_gemini (SDK, then API key) and _call_groq
Configured(p) == IF p = "gemini" THEN GENAI_READY ELSE GROQ_READY

\* What each adapter sends to its remote endpoint
Request(p, prompt, model) ==
    IF p = "gemini"
      THEN [provider |-> "gemini", model |-> Or(model, GEMINI_MODEL),
            prompt |-> prompt, system |-> None, json |-> FALSE]
      ELSE [provider |-> "groq", model |-> Or(model, GROQ_MODEL),
            prompt |-> prompt,
            system |-> "You must respond with valid JSON only.",
            json |-> TRUE]

\* What a remote endpoint answers when it answers
Contents == {"a1", " a2\n"}

\* str.strip() on the answers of the model
strip(s) == IF s = " a2\n" THEN "a2" ELSE s

\* The text an adapter returns for the remote answer
AdapterText(p, content) == IF p = "gemini" THEN content ELSE strip(content)

----------------------------------------------------------------------------
(* call_llm_router *)

MaxCalls == 1

Callers == {1, 2}
Prompts == {"p"}
Tasks == {"general", "resume_generation"}
Prefers == {None, "groq"}
Overrides == {None, "m"}
IOOutcomes == {"ok", "error"}

EmptyFrame ==
    [prompt |-> None, task |-> None, use_simulation |-> FALSE, prefer |-> None,
     model_override |-> None, model |-> None, key |-> None, out |-> None,
     providers |-> << >>, i |-> 0, req |-> NoRequest, result |-> None,
     ret |-> None, raised |-> FALSE,
     \* history of the call
     io |-> "none", present |-> FALSE, stored |-> None, outcomes |-> << >>,
     handed |-> << >>, tokens |-> 0, remote |-> 0, wrote |-> 0]

\* The model chosen by prefer alone, the override left to the adapters.
ResolveModelByPrefer(prefer, model_override) ==
    IF prefer # "groq" THEN GEMINI_MODEL ELSE GROQ_MODEL

\* The override taken whenever it is not None, the empty string included.
ResolveModelNotNone(prefer, model_override) ==
    IF model_override # None THEN model_override
    ELSE IF prefer # "groq" THEN GEMINI_MODEL ELSE GROQ_MODEL

\* model_override or (GEMINI_MODEL if prefer != "groq" else GROQ_MODEL)
ResolveModel(prefer, model_override) ==
    Or(model_override, IF prefer # "groq" THEN GEMINI_MODEL ELSE GROQ_MODEL)

\* if task in STRICT_JSON_TASKS: prompt = preamble + prompt
OutgoingPrompt(prompt, task) ==
    IF task \in STRICT_JSON_TASKS THEN JSON_PREAMBLE \o prompt ELSE prompt

\* An ordering that comes back to the first provider after the second.
ProviderOrderRetry(prefer) ==
    IF prefer # "groq" THEN <<"gemini", "groq", "gemini">>
    ELSE <<"groq", "gemini", "groq">>

\* The ordering reversed by every name other than the primary's.
ProviderOrderUnlessGemini(prefer) ==
    IF prefer \in {None, "gemini"} THEN <<"gemini", "groq">> ELSE <<"groq", "gemini">>

\* providers = ["gemini", "groq"] if prefer != "groq" else ["groq", "gemini"]
ProviderOrder(prefer) ==
    IF prefer # "groq" THEN <<"gemini", "groq">> ELSE <<"groq", "gemini">>

\* A write that appends the new text to the text the key already holds.
PutMerged(db, key, text) ==
    [k \in DOMAIN db \cup {key} |->
        IF k # key THEN db[k]
        ELSE IF key \in DOMAIN db THEN db[key] \o text ELSE text]

\* A write that leaves a key that is already present as it is.
PutIfAbsent(db, key, text) ==
    [k \in DOMAIN db \cup {key} |->
        IF k \in DOMAIN db THEN db[k] ELSE text]

\* db[key] = result
Put(db, key, text) ==
    [k \in DOMAIN db \cup {key} |-> IF k = key THEN text ELSE db[k]]

\* The use_simulation flag ignored.
SimulatedNever(use_simulation) == FALSE

\* if use_simulation: return simulated_response(prompt, task)
Simulated(use_simulation) == use_simulation

\* The call and its first lines: the simulation short-circuit, the model and
\* the cache key.
RouterEntry(t, prompt, task, use_simulation, prefer, model_override) ==
    /\ pc[t] \in {"idle", "done"}
    /\ budget > 0
    /\ budget' = budget - 1
    /\ LET f == [EmptyFrame EXCEPT !.prompt = prompt, !.task = task,
                    !.use_simulation = use_simulation, !.prefer = prefer,
                    !.model_override = model_override]
           model == ResolveModel(prefer, model_override)
       IN IF Simulated(use_simulation)
            THEN /\ rc' = [rc EXCEPT ![t] =
                        [f EXCEPT !.ret = simulated_response(prompt, task)]]
                 /\ pc' = [pc EXCEPT ![t] = "done"]
            ELSE /\ rc' = [rc EXCEPT ![t] =
                        [f EXCEPT !.model = model,
                                  !.key = _cache_key(prompt, task, model)]]
                 /\ pc' = [pc EXCEPT ![t] = "lookup"]
    /\ UNCHANGED <<bvars, GENAI_READY, GROQ_READY, cache, remotes, kt, hvars>>

\* An exception that no handler of call_llm_router catches leaves the call.
Propagate(t, f) ==
    /\ rc' = [rc EXCEPT ![t] = [f EXCEPT !.raised = TRUE]]
    /\ pc' = [pc EXCEPT ![t] = "done"]

\* The lookup never finds the key.
LookupHitNever(db, key, io) == FALSE

\* with shelve.open(CACHE_FILE) as db: if key in db: (the store answered and
\* holds the key)
LookupHit(db, key, io) == io = "ok" /\ key \in DOMAIN db

\* The lookup without its try/except: an error of the store leaves the call.
LookupErrorEscapes(io) == FALSE

\* try: ... except Exception: pass   (around the lookup)
LookupErrorCaught(io) == TRUE

\* The cache lookup in its try/except, then the strict-JSON wrapping and the
\* provider ordering.  io is what the store does: it answers, or it raises.
Lookup(t, io) ==
    /\ pc[t] = "lookup"
    /\ LET f == rc[t]
           present == f.key \in DOMAIN cache
           g == [f EXCEPT !.io = io, !.present = present,
                          !.stored = IF present THEN cache[f.key] ELSE None]
       IN IF LookupHit(cache, f.key, io)
            THEN /\ rc' = [rc EXCEPT ![t] = [g EXCEPT !.ret = cache[f.key]]]
                 /\ pc' = [pc EXCEPT ![t] = "done"]
            ELSE IF io = "error" /\ ~LookupErrorCaught(io)
            THEN Propagate(t, g)
            ELSE /\ rc' = [rc EXCEPT ![t] =
                        [g EXCEPT !.out = OutgoingPrompt(f.prompt, f.task),
                                  !.providers = ProviderOrder(f.prefer),
                                  !.i = 1]]
                 /\ pc' = [pc EXCEPT ![t] = "try"]
    /\ UNCHANGED <<bvars, GENAI_READY, GROQ_READY, cache, budget, remotes, kt, hvars>>

\* "except RuntimeError": only the adapters' own errors are caught.
CaughtRuntimeErrorOnly(kind) == kind \in {"config", "ratelimit"}

\* except Exception as e: every exception of the try block is caught.
Caught(kind) == TRUE

\* The loop ends by raising the last error.
AllFailedRaises(f) == [f EXCEPT !.raised = TRUE]

\* logger.error("All providers failed: ..."); return "SYSTEM OVERLOAD"
AllFailed(f) == [f EXCEPT !.ret = SYSTEM_OVERLOAD]

\* An exception raised inside the try block of the provider loop by frame f:
\* except Exception as e: last_error = e; log; the loop goes on to the next
\* provider, and after the last one the call returns.
Except(t, f, kind) ==
    LET g == [f EXCEPT !.result = None, !.req = NoRequest,
                       !.outcomes = Append(@,
                           [p |-> f.providers[f.i], kind |-> kind,
                            text |-> f.result, req |-> f.req])]
    IN IF ~Caught(kind)
         THEN Propagate(t, g)
         ELSE IF f.i < Len(f.providers)
         THEN /\ rc' = [rc EXCEPT ![t] = [g EXCEPT !.i = @ + 1]]
              /\ pc' = [pc EXCEPT ![t] = "try"]
         ELSE /\ rc' = [rc EXCEPT ![t] = AllFailed(g)]
              /\ pc' = [pc EXCEPT ![t] = "done"]

\* for p in providers: the adapter is called with (prompt, model_override); it
\* checks its configuration and calls bucket.consume().
TryProvider(t) ==
    /\ pc[t] = "try"
    /\ LET p == rc[t].providers[rc[t].i]
           f == [rc[t] EXCEPT !.handed = Append(@,
                    [p |-> p, prompt |-> rc[t].out, model |-> rc[t].model_override])]
       IN IF Configured(p)
            THEN /\ cn' = [cn EXCEPT ![t] = 1]
                 /\ pc' = [pc EXCEPT ![t] = "acquire"]
                 /\ rc' = [rc EXCEPT ![t] = f]
            ELSE /\ Except(t, f, "config")
                 /\ UNCHANGED cn
    /\ UNCHANGED <<bucket, now, ticks, cret, cepoch, avail, granted, denied>>
    /\ UNCHANGED <<GENAI_READY, GROQ_READY, cache, budget, remotes, kt, hvars>>

\* The adapter calls consume again until it is granted a token.
RateLimitedRetries(t) ==
    /\ pc' = [pc EXCEPT ![t] = "acquire"]
    /\ UNCHANGED rc

\* raise RuntimeError("Rate limit exceeded"), caught by the loop of the router
RateLimited(t) == Except(t, rc[t], "ratelimit")

\* if not bucket.consume(): raise RuntimeError("Rate limit exceeded")
AdapterConsumed(t) ==
    /\ pc[t] = "consumed"
    /\ IF cret[t]
         THEN /\ rc' = [rc EXCEPT ![t].tokens = @ + 1]
              /\ pc' = [pc EXCEPT ![t] = "remote"]
         ELSE RateLimited(t)
    /\ UNCHANGED <<bvars, GENAI_READY, GROQ_READY, cache, budget, remotes, kt, hvars>>

\* The remote call of the adapter: it answers with a content, or it raises.
Remote(t, answer) ==
    /\ pc[t] = "remote"
    /\ LET f == rc[t]
           p == f.providers[f.i]
           g == [f EXCEPT !.req = Request(p, f.out, f.model_override),
                          !.remote = @ + 1]
       IN IF answer # "error"
            THEN /\ rc' = [rc EXCEPT ![t] =
                        [g EXCEPT !.result = AdapterText(p, answer)]]
                 /\ pc' = [pc EXCEPT ![t] = "write"]
            ELSE Except(t, g, "remote")
    /\ remotes' = [remotes EXCEPT ![rc[t].providers[rc[t].i]] = @ + 1]
    /\ UNCHANGED <<bvars, GENAI_READY, GROQ_READY, cache, budget, kt, hvars>>

\* The write under a key computed from the prompt as sent to the provider.
WriteKeyWrapped(f) == _cache_key(f.out, f.task, f.model)

\* db[key] = result: key is the local of the lookup
WriteKey(f) == f.key

\* The write of the prompt that was sent instead of the text that came back.
WriteValuePrompt(f) == f.out

\* db[key] = result: result is what the adapter returned
WriteValue(f) == f.result

\* with shelve.open(CACHE_FILE) as db: db[key] = result; return result
CacheWrite(t, io) ==
    /\ pc[t] = "write"
    /\ LET f == rc[t]
       IN IF io = "ok"
            THEN /\ cache' = Put(cache, WriteKey(f), WriteValue(f))
                 /\ rc' = [rc EXCEPT ![t] =
                        [f EXCEPT !.ret = f.result, !.wrote = @ + 1,
                                  !.outcomes = Append(@,
                                      [p |-> f.providers[f.i], kind |-> "ok",
                                       text |-> f.result, req |-> f.req])]]
                 /\ pc' = [pc EXCEPT ![t] = "done"]
            ELSE /\ Except(t, f, "write_error")
                 /\ UNCHANGED cache
    /\ UNCHANGED <<bvars, GENAI_READY, GROQ_READY, budget, remotes, kt, hvars>>

----------------------------------------------------------------------------
(* _cache_key on a pair of triples *)

KeyStrings == {"", "a", "|", "a|", "|a"}
Triples == [task : KeyStrings, model : KeyStrings, prompt : KeyStrings]
NoKeys == [a |-> [task |-> "", model |-> "", prompt |-> ""],
           b |-> [task |-> "", model |-> "", prompt |-> ""],
           sa |-> None, sb |-> None, ka |-> None, kb |-> None]

\* _cache_key is called on each triple.
ComputeKeys ==
    /\ kt.ka = None
    /\ kt' = [kt EXCEPT
                !.sa = HashedString(kt.a.prompt, kt.a.task, kt.a.model),
                !.sb = HashedString(kt.b.prompt, kt.b.task, kt.b.model),
                !.ka = _cache_key(kt.a.prompt, kt.a.task, kt.a.model),
                !.kb = _cache_key(kt.b.prompt, kt.b.task, kt.b.model)]
    /\ UNCHANGED <<bvars, pc, rvars, hvars>>

----------------------------------------------------------------------------
(* The strict-JSON callers: structure_and_store_profile and
   generate_resume_from_profile *)

\* The JSON texts of the model
EMPTY_OBJECT == "{}"
EMPTY_ARRAY == "[]"
PROFILE_JSON == "{\"personal\":{\"name\":\"Ann\"}}"
RESUME_JSON == "{\"summary\":\"dev\",\"skills\":[\"python\"],\"experience\":[]}"

JSONDecodeError == [type |-> "JSONDecodeError", keys |-> {}, name |-> ""]

\* A parse that takes any text for an object.
JsonLoadsLenient(text) ==
    IF text = EMPTY_ARRAY
      THEN [type |-> "list", keys |-> {}, name |-> ""]
      ELSE [type |-> "dict", keys |-> {"summary", "skills", "experience", "personal"},
            name |-> "Ann"]

\* json.loads on the texts of the model: the type of the value, the keys of
\* an object and the personal.name it holds; any other text is not JSON.
json_loads(text) ==
    CASE text = EMPTY_OBJECT ->
            [type |-> "dict", keys |-> {}, name |-> ""]
      [] text = EMPTY_ARRAY ->
            [type |-> "list", keys |-> {}, name |-> ""]
      [] text = PROFILE_JSON ->
            [type |-> "dict", keys |-> {"personal"}, name |-> "Ann"]
      [] text = RESUME_JSON ->
            [type |-> "dict", keys |-> {"summary", "skills", "experience"}, name |-> ""]
      [] OTHER -> JSONDecodeError

\* not value: None, an empty dict and an empty list are falsy (the value of
\* None has no keys)
Empty(value) == value.keys = {}

\* validate_resume_schema on the values of the model: header, summary, skills
\* and experience are required (the values under the keys are well-typed).
validate_resume_schema(resume) ==
    /\ ~Empty(resume)
    /\ resume.type = "dict"
    /\ {"header", "summary", "skills", "experience"} \subseteq resume.keys

\* _extract_keywords on the job descriptions of the model
JobDescriptions == {None, "python", "cobol"}
_extract_keywords(text) == IF text = None THEN {} ELSE {text}

\* The JD keywords found in extract_text_for_matching(resume).lower()
matched_keywords(resume, header_name, job_description) ==
    {kw \in _extract_keywords(job_description) :
        kw \in {header_name} \cup
               (IF "summary" \in resume.keys THEN {"dev"} ELSE {}) \cup
               (IF "skills" \in resume.keys THEN {"python"} ELSE {})}

ProfileTexts == {"", "text"}
PROFILE_STRUCTURING_PROMPT(profile_text) ==
    "Structure this profile.\n" \o profile_text \o "\n----------------\n"
RESUME_GENERATION_PROMPT(structured_profile, job_description) ==
    "Generate a resume.\n" \o structured_profile.name \o "\n"
      \o (IF job_description # None THEN job_description
          ELSE "General entry-level software engineering role")

IdleHost ==
    [fn |-> "none", stage |-> "idle", prompt |-> None, task |-> None,
     profile_text |-> None, structured_profile |-> None,
     job_description |-> None, exc |-> "none", inserted |-> 0]

\* get_profile_by_id found nothing
NoDocument ==
    [source |-> None, raw_text |-> None,
     structured |-> [type |-> "NoneType", keys |-> {}, name |-> ""],
     text |-> None]

\* structure_and_store_profile up to the call of the router: the check of
\* the profile text and the prompt.
StructureStart(t, profile_text) ==
    /\ host[t].stage = "idle"
    /\ pc[t] = "idle"
    /\ host' = [host EXCEPT ![t] =
          IF profile_text = ""
            THEN [@ EXCEPT !.fn = "structure_and_store_profile",
                           !.stage = "raised", !.exc = "ValueError"]
            ELSE [@ EXCEPT !.fn = "structure_and_store_profile",
                           !.stage = "calling",
                           !.profile_text = profile_text,
                           !.task = "profile_structuring",
                           !.prompt = PROFILE_STRUCTURING_PROMPT(profile_text)]]
    /\ UNCHANGED <<bvars, pc, rvars, kt, profiles_collection, resumes_collection>>

\* generate_resume_from_profile up to the call of the router:
\* get_profile_by_id (None, or a document of the collection), the check of
\* its structured data and the prompt.
GenerateStart(t, profile, job_description) ==
    /\ host[t].stage = "idle"
    /\ pc[t] = "idle"
    /\ host' = [host EXCEPT ![t] =
          IF profile = NoDocument \/ Empty(profile.structured)
            THEN [@ EXCEPT !.fn = "generate_resume_from_profile",
                           !.stage = "raised", !.exc = "ValueError"]
            ELSE [@ EXCEPT !.fn = "generate_resume_from_profile",
                           !.stage = "calling",
                           !.structured_profile = profile.structured,
                           !.job_description = job_description,
                           !.task = "resume_generation",
                           !.prompt = RESUME_GENERATION_PROMPT(
                                          profile.structured, job_description)]]
    /\ UNCHANGED <<bvars, pc, rvars, kt, profiles_collection, resumes_collection>>

\* call_llm_router(prompt=prompt, task=..., use_simulation=False)
CallRouter(t) ==
    /\ host[t].stage = "calling"
    /\ pc[t] = "idle"
    /\ RouterEntry(t, host[t].prompt, host[t].task, FALSE, None, None)

\* structure_and_store_profile after the router has returned: json.loads,
\* the check that the value is an object, and the insert.
StructureFinish(t) ==
    /\ host[t].fn = "structure_and_store_profile"
    /\ host[t].stage = "calling"
    /\ pc[t] = "done"
    /\ LET raw_response == rc[t].ret
           structured_profile == json_loads(raw_response)
       IN IF rc[t].raised
            THEN /\ host' = [host EXCEPT ![t].stage = "raised",
                                         ![t].exc = "escaped"]
                 /\ UNCHANGED profiles_collection
          ELSE IF structured_profile = JSONDecodeError
                    \/ structured_profile.type # "dict"
            THEN /\ host' = [host EXCEPT ![t].stage = "raised",
                                         ![t].exc = "ValueError"]
                 /\ UNCHANGED profiles_collection
            ELSE /\ profiles_collection' = Append(profiles_collection,
                        [source |-> "manual",
                         raw_text |-> host[t].profile_text,
                         structured |-> structured_profile,
                         text |-> raw_response])
                 /\ host' = [host EXCEPT ![t].stage = "returned",
                                         ![t].inserted = @ + 1]
    /\ UNCHANGED <<bvars, pc, rvars, kt, resumes_collection>>

\* generate_resume_from_profile after the router has returned: json.loads,
\* the header, validate_resume_schema, the JD keyword alignment and the
\* insert.
GenerateFinish(t) ==
    /\ host[t].fn = "generate_resume_from_profile"
    /\ host[t].stage = "calling"
    /\ pc[t] = "done"
    /\ LET llm_response == rc[t].ret
           resume_json == json_loads(llm_response)
           header_name == host[t].structured_profile.name
           with_header == [resume_json EXCEPT !.keys = @ \cup {"header"}]
           raise(exc) == /\ host' = [host EXCEPT ![t].stage = "raised",
                                                 ![t].exc = exc]
                         /\ UNCHANGED resumes_collection
       IN IF rc[t].raised THEN raise("escaped")
          ELSE IF resume_json = JSONDecodeError THEN raise("ValueError")
          ELSE IF header_name = "" THEN raise("ValueError")
          ELSE IF resume_json.type # "dict" THEN raise("TypeError")
          ELSE IF ~validate_resume_schema(with_header) THEN raise("ValueError")
          ELSE IF /\ host[t].job_description # None
                  /\ _extract_keywords(host[t].job_description) # {}
                  /\ matched_keywords(with_header, header_name,
                                      host[t].job_description) = {}
            THEN raise("ValueError")
            ELSE /\ resumes_collection' = Append(resumes_collection,
                        [job_description |-> host[t].job_description,
                         resume |-> with_header,
                         text |-> llm_response])
                 /\ host' = [host EXCEPT ![t].stage = "returned",
                                         ![t].inserted = @ + 1]
    /\ UNCHANGED <<bvars, pc, rvars, kt, profiles_collection>>

----------------------------------------------------------------------------
(* Specifications *)

InitThreads ==
    /\ ticks = << >>
    /\ pc = [t \in Threads |-> "idle"]
    /\ cn = [t \in Threads |-> 1]
    /\ cret = [t \in Threads |-> FALSE]
    /\ cepoch = [t \in Threads |-> 0]
    /\ avail = << >>
    /\ granted = [e \in Epochs |-> 0]
    /\ denied = [e \in Epochs |-> 0]
    /\ rc = [t \in Threads |-> EmptyFrame]
    /\ host = [t \in Threads |-> IdleHost]
    /\ profiles_collection = << >>
    /\ resumes_collection = << >>

\* The bucket specifications do not call the adapters.
InitNoRouter ==
    /\ GENAI_READY = FALSE
    /\ GROQ_READY = FALSE
    /\ cache = << >>
    /\ budget = 0
    /\ remotes = NoRemotes
    /\ kt = NoKeys

\* A bucket of 60 requests per minute used by one thread; the clock moves
\* forward between calls.
InitArith ==
    /\ now = 0
    /\ bucket = TokenBucketInit(60, now)
    /\ InitThreads
    /\ InitNoRouter

NextArith ==
    \/ \E t \in ArithThreads : CallConsume(t, 1)
    \/ \E t \in ArithThreads : consume(t)
    \/ \E t \in ArithThreads : ConsumeReturn(t)
    \/ \E d \in {1, 2} : (\A t \in ArithThreads : pc[t] = "idle") /\ Tick(d)

SpecArith == InitArith /\ [][NextArith]_vars

\* A small bucket shared by several threads; the clock moves at any time,
\* forwards or backwards.
InitBucket ==
    /\ now = 0
    /\ \E rpm \in {1, 2} : bucket = TokenBucketInit(rpm, now)
    /\ InitThreads
    /\ InitNoRouter

NextBucket ==
    \/ \E t \in Threads : CallConsume(t, 1)
    \/ \E t \in Threads : consume(t)
    \/ \E t \in Threads : ConsumeReturn(t)
    \/ \E d \in {-1, 30, 60} : Tick(d)

SpecBucket == InitBucket /\ [][NextBucket]_vars

\* Cache files that earlier calls can have left: empty, or one text stored
\* under the key of a request.
EarlierCaches ==
    {<< >>} \cup
    {Put(<< >>, _cache_key("p", "general", GEMINI_MODEL), "a1"),
     Put(<< >>, _cache_key("p", "resume_generation", "m"), "a2")}

\* The gateway at some moment of the process: RPM, the SDKs and the API keys
\* are fixed at import; earlier calls have left the bucket at any whole level
\* and the cache file with or without an entry.  Callers are threads of the
\* host service.  The clock stands still while the calls run (every refill
\* adds nothing); SpecArith, SpecBucket and SpecShared move it.
Init ==
    /\ now = 0
    /\ \E rpm \in {2}, level \in 0..2 :
          bucket = [TokenBucketInit(rpm, now) EXCEPT !.tokens = level * TokenScale]
    /\ InitThreads
    /\ GENAI_READY \in BOOLEAN
    /\ GROQ_READY \in BOOLEAN
    /\ cache \in EarlierCaches
    /\ budget = MaxCalls
    /\ remotes = NoRemotes
    /\ kt = NoKeys

Next ==
    \/ \E t \in Callers, prompt \in Prompts, task \in Tasks,
          use_simulation \in BOOLEAN, prefer \in Prefers,
          model_override \in Overrides :
            RouterEntry(t, prompt, task, use_simulation, prefer, model_override)
    \/ \E t \in Callers, io \in IOOutcomes : Lookup(t, io)
    \/ \E t \in Callers : TryProvider(t)
    \/ \E t \in Callers : consume(t)
    \/ \E t \in Callers : AdapterConsumed(t)
    \/ \E t \in Callers, answer \in Contents \cup {"error"} : Remote(t, answer)
    \/ \E t \in Callers, io \in IOOutcomes : CacheWrite(t, io)

Spec == Init /\ [][Next]_vars

\* One call of call_llm_router with its arguments drawn widely: every
\* strict-JSON tag and other task strings, known and unknown provider names,
\* no override, an empty one and a model name.
WideCallers == {1}
WideTasks ==
    {"recruiter_eval", "profile_structuring", "achievement_rewrite",
     "resume_generation", "cover_letter_generation", "portfolio_generation",
     "ats_analysis", "general", "", "Resume_Generation", "resume"}
WidePrefers == {None, "groq", "gemini", "Groq", "", "openai"}
WideOverrides == {None, "", "m"}

InitWide ==
    /\ now = 0
    /\ \E rpm \in {2}, level \in 0..2 :
          bucket = [TokenBucketInit(rpm, now) EXCEPT !.tokens = level * TokenScale]
    /\ InitThreads
    /\ GENAI_READY \in BOOLEAN
    /\ GROQ_READY \in BOOLEAN
    /\ cache \in EarlierCaches
    /\ budget = 1
    /\ remotes = NoRemotes
    /\ kt = NoKeys

NextWide ==
    \/ \E t \in WideCallers, prompt \in Prompts, task \in WideTasks,
          use_simulation \in BOOLEAN, prefer \in WidePrefers,
          model_override \in WideOverrides :
            RouterEntry(t, prompt, task, use_simulation, prefer, model_override)
    \/ \E t \in WideCallers, io \in IOOutcomes : Lookup(t, io)
    \/ \E t \in WideCallers : TryProvider(t)
    \/ \E t \in WideCallers : consume(t)
    \/ \E t \in WideCallers : AdapterConsumed(t)
    \/ \E t \in WideCallers, answer \in Contents \cup {"error"} : Remote(t, answer)
    \/ \E t \in WideCallers, io \in IOOutcomes : CacheWrite(t, io)

SpecWide == InitWide /\ [][NextWide]_vars

\* Two calls of call_llm_router from the threads of the host service, one
\* after the other or overlapping, on the one bucket of the module; the clock
\* moves at any time.
SharedTasks == {"general"}
SharedOverrides == {None}
SharedAnswers == {"a1", "error"}
SharedCaches == {<< >>, Put(<< >>, _cache_key("p", "general", GEMINI_MODEL), "a1")}

InitShared ==
    /\ now = 0
    /\ \E rpm \in {2}, level \in 0..2 :
          bucket = [TokenBucketInit(rpm, now) EXCEPT !.tokens = level * TokenScale]
    /\ InitThreads
    /\ GENAI_READY \in BOOLEAN
    /\ GROQ_READY \in BOOLEAN
    /\ cache \in SharedCaches
    /\ budget = 2
    /\ remotes = NoRemotes
    /\ kt = NoKeys

NextShared ==
    \/ \E t \in Callers, prompt \in Prompts, task \in SharedTasks,
          use_simulation \in BOOLEAN, prefer \in Prefers,
          model_override \in SharedOverrides :
            RouterEntry(t, prompt, task, use_simulation, prefer, model_override)
    \/ \E t \in Callers, io \in IOOutcomes : Lookup(t, io)
    \/ \E t \in Callers : TryProvider(t)
    \/ \E t \in Callers : consume(t)
    \/ \E t \in Callers : AdapterConsumed(t)
    \/ \E t \in Callers, answer \in SharedAnswers : Remote(t, answer)
    \/ \E t \in Callers, io \in IOOutcomes : CacheWrite(t, io)
    \/ \E d \in {30} : Tick(d)

SpecShared == InitShared /\ [][NextShared]_vars

\* The two calls of SpecShared with the clock standing still, under the
\* scheduling the host gives them: a thread that can take a step of its call
\* eventually takes it (a remote call returns or fails, the store answers or
\* raises), and a thread waiting for the bucket lock gets it if the lock is
\* free again and again.
NextLive ==
    \/ \E t \in Callers, prompt \in Prompts, task \in SharedTasks,
          use_simulation \in BOOLEAN, prefer \in Prefers,
          model_override \in SharedOverrides :
            RouterEntry(t, prompt, task, use_simulation, prefer, model_override)
    \/ \E t \in Callers, io \in IOOutcomes : Lookup(t, io)
    \/ \E t \in Callers : TryProvider(t)
    \/ \E t \in Callers : consume(t)
    \/ \E t \in Callers : AdapterConsumed(t)
    \/ \E t \in Callers, answer \in SharedAnswers : Remote(t, answer)
    \/ \E t \in Callers, io \in IOOutcomes : CacheWrite(t, io)

\* The steps of thread t inside its call, the lock acquisition apart
Running(t) ==
    \/ \E io \in IOOutcomes : Lookup(t, io)
    \/ TryProvider(t)
    \/ Refill(t) \/ Check(t) \/ Subtract(t)
    \/ AdapterConsumed(t)
    \/ \E answer \in SharedAnswers : Remote(t, answer)
    \/ \E io \in IOOutcomes : CacheWrite(t, io)

Fairness ==
    \A t \in Callers : WF_vars(Running(t)) /\ SF_vars(Acquire(t))

SpecLive == InitShared /\ [][NextLive]_vars /\ Fairness

\* Two threads that each make one call for the same prompt and task, with
\* any provider preference and override, one after the other or overlapping;
\* the cache file starts empty, the bucket empty, with half a token, one
\* token or full, and the clock stands still.
PairOverrides == {None, "", "m"}
PairLevels == {0, TokenScale \div 2, TokenScale, 2 * TokenScale}

InitPair ==
    /\ now = 0
    /\ \E rpm \in {2}, level \in PairLevels :
          bucket = [TokenBucketInit(rpm, now) EXCEPT !.tokens = level]
    /\ InitThreads
    /\ GENAI_READY \in BOOLEAN
    /\ GROQ_READY \in BOOLEAN
    /\ cache = << >>
    /\ budget = 2
    /\ remotes = NoRemotes
    /\ kt = NoKeys

NextPair ==
    \/ \E t \in Callers, prompt \in Prompts, task \in SharedTasks,
          prefer \in Prefers, model_override \in PairOverrides :
            /\ pc[t] = "idle"
            /\ RouterEntry(t, prompt, task, FALSE, prefer, model_override)
    \/ \E t \in Callers, io \in IOOutcomes : Lookup(t, io)
    \/ \E t \in Callers : TryProvider(t)
    \/ \E t \in Callers : consume(t)
    \/ \E t \in Callers : AdapterConsumed(t)
    \/ \E t \in Callers, answer \in Contents \cup {"error"} : Remote(t, answer)
    \/ \E t \in Callers, io \in IOOutcomes : CacheWrite(t, io)

SpecPair == InitPair /\ [][NextPair]_vars

\* Two threads of the service that each run one of the two strict-JSON
\* callers; a profile stored earlier is in the collection, the cache file is
\* empty, the bucket is empty or full and the clock stands still.
CallerAnswers == {EMPTY_OBJECT, EMPTY_ARRAY, PROFILE_JSON, RESUME_JSON, "a1", "error"}
CallerLevels == {0, 2 * TokenScale}
EarlierProfiles ==
    <<[source |-> "manual", raw_text |-> "text",
       structured |-> json_loads(PROFILE_JSON), text |-> PROFILE_JSON]>>

Stored(collection) == {collection[k] : k \in 1..Len(collection)}

InitCallers ==
    /\ now = 0
    /\ \E rpm \in {2}, level \in CallerLevels :
          bucket = [TokenBucketInit(rpm, now) EXCEPT !.tokens = level]
    /\ ticks = << >>
    /\ pc = [t \in Threads |-> "idle"]
    /\ cn = [t \in Threads |-> 1]
    /\ cret = [t \in Threads |-> FALSE]
    /\ cepoch = [t \in Threads |-> 0]
    /\ avail = << >>
    /\ granted = [e \in Epochs |-> 0]
    /\ denied = [e \in Epochs |-> 0]
    /\ rc = [t \in Threads |-> EmptyFrame]
    /\ host = [t \in Threads |-> IdleHost]
    /\ profiles_collection = EarlierProfiles
    /\ resumes_collection = << >>
    /\ GENAI_READY \in BOOLEAN
    /\ GROQ_READY \in BOOLEAN
    /\ cache = << >>
    /\ budget = 2
    /\ remotes = NoRemotes
    /\ kt = NoKeys

NextCallers ==
    \/ \E t \in Callers, profile_text \in ProfileTexts :
          StructureStart(t, profile_text)
    \/ \E t \in Callers, job_description \in JobDescriptions,
          profile \in Stored(profiles_collection) \cup {NoDocument} :
            GenerateStart(t, profile, job_description)
    \/ \E t \in Callers : CallRouter(t)
    \/ \E t \in Callers, io \in IOOutcomes : Lookup(t, io)
    \/ \E t \in Callers : TryProvider(t)
    \/ \E t \in Callers : consume(t)
    \/ \E t \in Callers : AdapterConsumed(t)
    \/ \E t \in Callers, answer \in CallerAnswers : Remote(t, answer)
    \/ \E t \in Callers, io \in IOOutcomes : CacheWrite(t, io)
    \/ \E t \in Callers : StructureFinish(t)
    \/ \E t \in Callers : GenerateFinish(t)

SpecCallers == InitCallers /\ [][NextCallers]_vars

\* _cache_key applied to two triples of strings.
InitKey ==
    /\ now = 0
    /\ bucket = TokenBucketInit(1, now)
    /\ InitThreads
    /\ GENAI_READY = FALSE
    /\ GROQ_READY = FALSE
    /\ cache = << >>
    /\ budget = 0
    /\ remotes = NoRemotes
    /\ \E a, b \in Triples : kt = [NoKeys EXCEPT !.a = a, !.b = b]

NextKey == ComputeKeys

SpecKey == InitKey /\ [][NextKey]_vars

----------------------------------------------------------------------------
(* Claims about the token bucket *)

WholeTokens(x) == IF x < 0 THEN 0 ELSE x \div TokenScale

\* C8: a bucket of capacity 60 refilled at 1 token per second starts full; with
\* no elapsed time its first 60 consume() calls return True and the 61st
\* returns False; after exactly 1 further second exactly one more call returns
\* True and the next returns False.
C8_TokenBucketArithmetic ==
    (bucket.capacity = 60 * TokenScale /\ bucket.rate = 1 * TokenScale) =>
        /\ granted[0] = Min(granted[0] + denied[0], 60)
        /\ (Len(ticks) >= 1 /\ ticks[1] = 1 /\ granted[0] = 60) =>
               granted[1] = Min(granted[1] + denied[1], 1)

\* C8 witness: 60 grants and a denial at time 0, then one second, then one
\* grant and one denial.
C8_Witness ==
    /\ bucket.capacity = 60 * TokenScale /\ bucket.rate = 1 * TokenScale
    /\ ticks = <<1>>
    /\ granted[0] = 60 /\ denied[0] = 1
    /\ granted[1] = 1 /\ denied[1] = 1

\* C9: consume(1) calls from any number of threads are serialized by the
\* bucket lock, so no token is granted twice: among the calls that read one
\* clock value (no elapsed time between them), the number that returned True
\* is min(number of calls, whole tokens available at the first of them), in
\* every interleaving.
C9_NoTokenGrantedTwice ==
    \A e \in Epochs :
        IF e \in DOMAIN avail
          THEN granted[e] = Min(granted[e] + denied[e], WholeTokens(avail[e]))
          ELSE granted[e] = 0 /\ denied[e] = 0

\* C9 witness: two overlapping calls, one granted the last token and one
\* denied, neither yet returned to its caller.
C9_Witness ==
    \E t, u \in Threads :
        /\ t # u
        /\ pc[t] = "consumed" /\ cret[t]
        /\ pc[u] = "consumed" /\ ~cret[u]
        /\ cepoch[t] = cepoch[u]
        /\ granted[cepoch[t]] = WholeTokens(avail[cepoch[t]])

\* C24: after any sequence of consume calls, from any number of threads and
\* for any sequence of clock readings, the bucket's token count satisfies
\* 0 <= tokens <= capacity.
C24_BucketBounds ==
    0 <= bucket.tokens /\ bucket.tokens <= bucket.capacity

\* The last epoch before e in which a consume read the clock, -1 if none
RECURSIVE LastSeen(_)
LastSeen(e) ==
    IF e = 0 THEN 0 - 1
    ELSE IF (e - 1) \in DOMAIN avail THEN e - 1 ELSE LastSeen(e - 1)

\* The seconds between the readings of epochs d and e, d < e
RECURSIVE Elapsed(_, _)
Elapsed(d, e) == IF d >= e THEN 0 ELSE ticks[e] + Elapsed(d, e - 1)

\* The tokens left by the calls of epoch d (the full bucket before any call)
LeftBy(d) ==
    IF d < 0 THEN bucket.capacity ELSE avail[d] - TokenScale * granted[d]

\* C25: a denied consume subtracts nothing, but it has added the refill for
\* the time elapsed since the last reading (capped at capacity) and stamped
\* the time it read; so at the first call after each clock change the bucket
\* holds what the earlier calls left plus the refill for the whole time
\* elapsed since they read the clock, once, whether those calls were granted
\* or denied, and further calls at the same reading add nothing.
C25_DeniedConsumeRefills ==
    /\ [][\A t \in Threads :
            (pc[t] = "refill" /\ pc'[t] = "check") =>
                /\ bucket'.last = now
                /\ bucket'.tokens =
                      Min(bucket.capacity,
                          bucket.tokens + (now - bucket.last) * bucket.rate)]_vars
    /\ [][\A t \in Threads :
            (pc[t] = "check" /\ pc'[t] = "consumed") =>
                /\ ~cret'[t]
                /\ bucket.tokens < cn[t] * TokenScale
                /\ bucket'.tokens = bucket.tokens
                /\ bucket'.last = bucket.last]_vars
    /\ [](\A e \in DOMAIN avail :
            e >= 1 =>
                avail[e] = Min(bucket.capacity,
                               LeftBy(LastSeen(e))
                                 + Elapsed(IF LastSeen(e) < 0 THEN 0 ELSE LastSeen(e), e)
                                     * bucket.rate))
    /\ []((bucket.lock = NoThread /\ Len(ticks) \in DOMAIN avail) =>
            bucket.tokens = LeftBy(Len(ticks)))

\* C25 witness: a bucket of one token per minute was emptied, the clock
\* moved by 30 seconds, and two calls were denied: the bucket holds the half
\* token of those 30 seconds, once, stamped with the new time.
C25_Witness ==
    /\ bucket.capacity = TokenScale
    /\ granted[0] = 1
    /\ ticks = <<30>>
    /\ granted[1] = 0 /\ denied[1] = 2
    /\ bucket.tokens = 30
    /\ bucket.last = 30 /\ now = 30
    /\ bucket.lock = NoThread

----------------------------------------------------------------------------
(* Claims about call_llm_router *)

FailureKinds == {"config", "ratelimit", "remote"}

\* The call of thread t has returned or raised.
Ended(t) == pc[t] = "done"

\* The lookup of frame f was a miss: the store answered and had no entry.
Missed(f) == f.io = "ok" /\ ~f.present

\* What a call that went through the provider loop returns: the text of the
\* provider whose result was written, else the sentinel.
LoopResult(f) ==
    IF f.outcomes # << >> /\ f.outcomes[Len(f.outcomes)].kind = "ok"
      THEN f.outcomes[Len(f.outcomes)].text
      ELSE "SYSTEM OVERLOAD"

\* C1: with use_simulation false and no cache hit, when every provider of the
\* ordering has failed (by missing configuration, rate-limit denial or remote
\* error, in any combination), the call returns "SYSTEM OVERLOAD" and raises
\* nothing.
C1_AllFailedSentinel ==
    \A t \in Callers :
        LET f == rc[t]
        IN (/\ Ended(t)
            /\ ~f.use_simulation
            /\ f.io \in {"ok", "error"} /\ ~(f.io = "ok" /\ f.present)
            /\ Len(f.outcomes) = 2
            /\ \A k \in 1..2 : f.outcomes[k].kind \in FailureKinds)
           => (f.ret = "SYSTEM OVERLOAD" /\ ~f.raised)

\* C1 witness: the first provider got the last token and its remote call
\* failed, the second was denied a token, and the call has returned.
C1_Witness ==
    \E t \in Callers :
        /\ Ended(t)
        /\ Missed(rc[t])
        /\ Len(rc[t].outcomes) = 2
        /\ rc[t].outcomes[1].kind = "remote"
        /\ rc[t].outcomes[2].kind = "ratelimit"
        /\ rc[t].ret = "SYSTEM OVERLOAD"

\* C2: when a provider invocation succeeds and the cache put that follows
\* raises, the call still returns that provider's text and tries no further
\* provider (so it consumes no further token).
C2_WriteFailureHarmless ==
    \A t \in Callers :
        LET f == rc[t]
        IN Ended(t) =>
             \A k \in 1..Len(f.outcomes) :
                 f.outcomes[k].kind = "write_error" =>
                     /\ f.ret = f.outcomes[k].text
                     /\ Len(f.outcomes) = k
                     /\ f.remote <= k

\* C3: a cache read that raises is treated as a miss: the call does not raise,
\* it goes on to the provider loop from its first provider, and it returns
\* what the loop gives, as after a miss.
C3_ReadFailureIsMiss ==
    \A t \in Callers :
        LET f == rc[t]
        IN (f.io = "error" \/ Missed(f)) =>
             /\ ~f.raised
             /\ f.providers = ProviderOrder(f.prefer)
             /\ (f.outcomes = << >> /\ ~Ended(t)) => f.i = 1
             /\ pc[t] \in {"try", "acquire", "refill", "check", "subtract",
                           "consumed", "remote", "write", "done"}
             /\ Ended(t) => (Len(f.outcomes) >= 1 /\ f.ret = LoopResult(f))

\* C3 witness: the store held the entry, the read raised, and the call
\* returned a provider's text.
C3_Witness ==
    \E t \in Callers :
        /\ Ended(t)
        /\ rc[t].io = "error" /\ rc[t].present
        /\ Len(rc[t].outcomes) = 1
        /\ rc[t].outcomes[1].kind = "ok"
        /\ rc[t].ret = rc[t].outcomes[1].text

\* The body of the short-circuit: the stored text is returned, no provider
\* was tried, no token consumed, nothing written.
ShortCircuited(t) ==
    /\ Ended(t)
    /\ rc[t].ret = rc[t].stored
    /\ ~rc[t].raised
    /\ rc[t].outcomes = << >>
    /\ rc[t].tokens = 0
    /\ rc[t].remote = 0
    /\ rc[t].wrote = 0

\* C4, as stated: whenever the cache holds an entry for the key at lookup time
\* and use_simulation is false, the call returns the stored text, invokes no
\* provider, consumes no token and writes nothing.
C4_HitShortCircuitAsStated ==
    \A t \in Callers :
        (rc[t].io # "none" /\ rc[t].present) => ShortCircuited(t)

\* C4, amended: whenever the cache holds an entry for the key at lookup time,
\* the store answers the lookup without raising and use_simulation is false,
\* the call returns the stored text, invokes no provider, consumes no token
\* and writes nothing, whatever the bucket level and the configuration.
C4_HitShortCircuit ==
    \A t \in Callers :
        (rc[t].io = "ok" /\ rc[t].present) => ShortCircuited(t)

\* C4 witness: a hit with an empty bucket and no provider configured.
C4_Witness ==
    \E t \in Callers :
        /\ rc[t].io = "ok" /\ rc[t].present
        /\ ~rc[t].use_simulation
        /\ Ended(t)
        /\ rc[t].ret = "a1"
        /\ bucket.tokens = 0
        /\ ~GENAI_READY /\ ~GROQ_READY

\* The call of frame f missed the cache, its primary failed and its
\* secondary succeeded, in the default ordering.
FailedOver(f) ==
    /\ ~f.use_simulation
    /\ Missed(f)
    /\ f.providers = <<"gemini", "groq">>
    /\ Len(f.outcomes) = 2
    /\ f.outcomes[1].p = "gemini" /\ f.outcomes[1].kind \in FailureKinds
    /\ f.outcomes[2].p = "groq" /\ f.outcomes[2].kind = "ok"

\* C5: when the primary fails and the secondary succeeds (default ordering,
\* cache miss, store working), the call returns the secondary's output, and
\* a lookup of the call's key right after the call finds that same output.
C5_Failover ==
    [][\A t \in Callers :
          (pc[t] = "write" /\ pc'[t] = "done" /\ FailedOver(rc'[t])) =>
              /\ rc'[t].ret = rc[t].result
              /\ rc'[t].ret \in {"a1", "a2"}
              /\ ~rc'[t].raised
              /\ LookupHit(cache', _cache_key(rc'[t].prompt, rc'[t].task, rc'[t].model), "ok")
              /\ cache'[_cache_key(rc'[t].prompt, rc'[t].task, rc'[t].model)] = rc'[t].ret]_vars

\* C5 witness: a strict-JSON call that failed over and whose key now holds
\* the secondary's text.
C5_Witness ==
    \E t \in Callers :
        /\ Ended(t)
        /\ FailedOver(rc[t])
        /\ rc[t].task = "resume_generation"
        /\ rc[t].ret = "a2"
        /\ rc[t].key \in DOMAIN cache
        /\ cache[rc[t].key] = "a2"

\* C6: no adapter error escapes the router: whatever the providers and the
\* cache do, the call never raises and returns a string, and the k-th failure
\* of a call is that of the k-th provider of its ordering.
C6_NoErrorEscapes ==
    \A t \in Callers :
        LET f == rc[t]
        IN /\ ~f.raised
           /\ Ended(t) => f.ret # None
           /\ Len(f.outcomes) <= Len(f.providers)
           /\ \A k \in 1..Len(f.outcomes) : f.outcomes[k].p = f.providers[k]
           /\ (pc[t] \in {"try", "acquire", "refill", "check", "subtract",
                          "consumed", "remote", "write"})
                 => f.i = Len(f.outcomes) + 1

\* C6 witness: a read error, then a remote error, then a write error, and the
\* call has returned.
C6_Witness ==
    \E t \in Callers :
        /\ Ended(t)
        /\ rc[t].io = "error"
        /\ Len(rc[t].outcomes) = 2
        /\ rc[t].outcomes[1].kind = "remote"
        /\ rc[t].outcomes[2].kind = "write_error"
        /\ rc[t].ret = "SYSTEM OVERLOAD"
        /\ ~rc[t].raised

\* The stub of simulated_response, written out.
Stub(task) ==
    IF task = "resume_generation"
      THEN "{\"status\":\"simulated\",\"task\":\"resume_generation\"}"
      ELSE "SIMULATED RESPONSE"

\* C7: a call with use_simulation true returns the stub in one step that
\* leaves the cache and the bucket as they are; it reads no cache, calls no
\* consume and invokes no provider, whether or not the key has an entry.
C7_SimulationIsolation ==
    /\ [](\A t \in Callers :
            rc[t].use_simulation =>
                /\ Ended(t)
                /\ rc[t].ret = Stub(rc[t].task)
                /\ ~rc[t].raised
                /\ rc[t].io = "none"
                /\ rc[t].outcomes = << >>
                /\ rc[t].tokens = 0 /\ rc[t].remote = 0 /\ rc[t].wrote = 0)
    /\ [][\A t \in Callers :
            (rc'[t] # rc[t] /\ rc'[t].use_simulation) =>
                /\ cache' = cache
                /\ bucket' = bucket
                /\ granted' = granted /\ denied' = denied
                /\ pc'[t] = "done"]_vars

\* C7 witness: a simulated strict-JSON call has returned the stub while the
\* cache holds an entry for its key.
C7_Witness ==
    \E t \in Callers :
        /\ Ended(t)
        /\ rc[t].use_simulation
        /\ rc[t].task = "resume_generation"
        /\ rc[t].model_override = "m"
        /\ _cache_key("p", "resume_generation", "m") \in DOMAIN cache
        /\ rc[t].ret = Stub("resume_generation")

\* The key of a triple, written out.
KeyOf(task, model, prompt) == task \o "|" \o model \o "|" \o prompt

\* The key of the arguments of frame f: its task, its resolved model and the
\* prompt the caller supplied.
CallKey(f) == KeyOf(f.task, f.model, f.prompt)

\* C11: the cache key of a call is a function of exactly (task, resolved
\* model, original prompt): it is made of the prompt as the caller supplied
\* it, not of the prompt with the strict-JSON preamble; the lookup and the
\* write of one call use that same key; equal triples give equal keys.
C11_KeyOfOriginalTriple ==
    /\ [](\A t \in Callers :
            rc[t].key # None =>
                /\ rc[t].model # None
                /\ rc[t].key = CallKey(rc[t]))
    /\ [](\A t, u \in Callers :
            (/\ rc[t].key # None /\ rc[u].key # None
             /\ rc[t].task = rc[u].task /\ rc[t].model = rc[u].model
             /\ rc[t].prompt = rc[u].prompt) => rc[t].key = rc[u].key)
    /\ [][\A t \in Callers :
            (pc[t] = "lookup" /\ pc'[t] # "lookup") =>
                /\ (pc'[t] = "done") =
                      (rc'[t].io = "ok" /\ CallKey(rc[t]) \in DOMAIN cache)
                /\ pc'[t] = "done" => rc'[t].ret = cache[CallKey(rc[t])]]_vars
    /\ [][\A t \in Callers :
            (pc[t] = "write" /\ rc'[t].wrote = rc[t].wrote + 1) =>
                /\ CallKey(rc[t]) \in DOMAIN cache'
                /\ cache'[CallKey(rc[t])] = rc[t].result
                /\ \A k \in DOMAIN cache' :
                      k # CallKey(rc[t]) => (k \in DOMAIN cache /\ cache'[k] = cache[k])]_vars

\* C11 witness: a strict-JSON call sent the wrapped prompt to a provider and
\* stored the answer under the key of the original prompt, next to the entry
\* an earlier call left under another key.
C11_Witness ==
    \E t \in Callers :
        /\ Ended(t)
        /\ rc[t].task = "resume_generation"
        /\ rc[t].out # rc[t].prompt
        /\ rc[t].wrote = 1
        /\ rc[t].io = "ok" /\ ~rc[t].present
        /\ "resume_generation|gemini-2.5-flash|p" \in DOMAIN cache
        /\ cache["resume_generation|gemini-2.5-flash|p"] = rc[t].ret
        /\ Cardinality(DOMAIN cache) = 2

\* The seven strict-JSON task tags and the JSON-only preamble, written out.
StrictTags ==
    {"recruiter_eval", "profile_structuring", "achievement_rewrite",
     "resume_generation", "cover_letter_generation", "portfolio_generation",
     "ats_analysis"}
Preamble == "SYSTEM: Respond ONLY with valid JSON. No markdown. No explanations.\n\n"

\* C12: the prompt handed to a provider adapter is the preamble followed by
\* the original prompt if and only if task is one of the seven strict-JSON
\* tags; for every other task string it is the original prompt unchanged;
\* every provider tried in one call is handed the same prompt, and that is
\* the user prompt its remote request carries.
C12_StrictJsonWrapping ==
    \A t \in WideCallers :
        LET f == rc[t]
        IN /\ \A k \in 1..Len(f.handed) :
                /\ (f.handed[k].prompt = Preamble \o f.prompt) = (f.task \in StrictTags)
                /\ f.task \notin StrictTags => f.handed[k].prompt = f.prompt
                /\ f.handed[k].prompt = f.handed[1].prompt
           /\ f.req # NoRequest => f.req.prompt = f.handed[Len(f.handed)].prompt
           /\ \A k \in 1..Len(f.outcomes) :
                f.outcomes[k].req # NoRequest =>
                    f.outcomes[k].req.prompt = f.handed[k].prompt

\* C12 witness: an "ats_analysis" call has handed the wrapped prompt to both
\* providers, the second of which sent it.
C12_Witness ==
    \E t \in WideCallers :
        /\ rc[t].task = "ats_analysis"
        /\ Len(rc[t].handed) = 2
        /\ rc[t].handed[1].prompt = Preamble \o "p"
        /\ rc[t].handed[2].prompt = Preamble \o "p"
        /\ rc[t].req.prompt = Preamble \o "p"

\* Request r carries no demand for JSON: no JSON-only system message, no JSON
\* response format, and as user prompt the original prompt.
NoJsonDemand(r, prompt) ==
    /\ r.system = None
    /\ ~r.json
    /\ r.prompt = prompt

\* C13: for a task outside the strict-JSON set, the request that either
\* adapter sends to its remote endpoint carries no JSON-only instruction and
\* no JSON response-format constraint.
C13_FreeFormNoJsonDemand ==
    \A t \in Callers :
        LET f == rc[t]
        IN f.task \notin StrictTags =>
             /\ f.req # NoRequest => NoJsonDemand(f.req, f.prompt)
             /\ \A k \in 1..Len(f.outcomes) :
                  f.outcomes[k].req # NoRequest =>
                      NoJsonDemand(f.outcomes[k].req, f.prompt)

\* The k-th provider invocation of frame f succeeded: its adapter returned a
\* text.
Succeeded(f, k) == f.outcomes[k].text # None

\* C14: as soon as one provider invocation succeeds, its result is written to
\* the cache under the call's key and returned, and no later provider of the
\* ordering is invoked; a provider is invoked only if every provider before
\* it failed in that call.
C14_FirstSuccessTerminal ==
    \A t \in Callers :
        LET f == rc[t]
        IN \A k \in 1..Len(f.outcomes) :
             Succeeded(f, k) =>
                 /\ Len(f.handed) = k
                 /\ Ended(t)
                 /\ f.wrote = 1
                 /\ f.ret = f.outcomes[k].text

\* C15: the providers are tried in the order [gemini, groq] for every value
\* of prefer other than "groq" (none, the primary's name, unknown strings),
\* and in the order [groq, gemini] exactly when prefer is "groq"; an ordering
\* holds each provider exactly once.
C15_ProviderOrdering ==
    \A t \in WideCallers :
        LET f == rc[t]
        IN /\ f.providers # << >> =>
                /\ (f.providers = <<"groq", "gemini">>) = (f.prefer = "groq")
                /\ f.prefer # "groq" => f.providers = <<"gemini", "groq">>
                /\ Len(f.providers) = 2
                /\ \A p \in {"gemini", "groq"} :
                      Cardinality({k \in 1..2 : f.providers[k] = p}) = 1
           /\ Len(f.handed) <= Len(f.providers)
           /\ \A k \in 1..Len(f.handed) : f.handed[k].p = f.providers[k]

\* C15 witness: a call that prefers an unknown provider has tried gemini,
\* then groq.
C15_Witness ==
    \E t \in WideCallers :
        /\ rc[t].prefer = "openai"
        /\ Len(rc[t].handed) = 2
        /\ rc[t].handed[1].p = "gemini"
        /\ rc[t].handed[2].p = "groq"

\* The default model of a preference, written out.
DefaultModel(prefer) ==
    IF prefer = "groq" THEN "llama-3.1-8b-instant" ELSE "gemini-2.5-flash"

\* C16, as stated: the model in the cache key is model_override whenever an
\* override is supplied (is not None); otherwise it is the secondary's
\* default model if prefer names the secondary and the primary's default model
\* in every other case.
C16_ModelResolutionAsStated ==
    \A t \in WideCallers :
        LET f == rc[t]
            m == IF f.model_override # None THEN f.model_override
                 ELSE DefaultModel(f.prefer)
        IN f.key # None => (f.model = m /\ f.key = KeyOf(f.task, m, f.prompt))

\* C16, amended: the model in the cache key is model_override whenever a
\* non-empty override is supplied; with no override or an empty one it is the
\* secondary's default model if prefer names the secondary and the primary's
\* default model in every other case.
C16_ModelResolution ==
    \A t \in WideCallers :
        LET f == rc[t]
            m == IF f.model_override \notin {None, ""} THEN f.model_override
                 ELSE DefaultModel(f.prefer)
        IN f.key # None => (f.model = m /\ f.key = KeyOf(f.task, m, f.prompt))

\* C16 witness: a call with an empty override that prefers the secondary has
\* computed its key with the secondary's default model.
C16_Witness ==
    \E t \in WideCallers :
        /\ rc[t].model_override = ""
        /\ rc[t].prefer = "groq"
        /\ rc[t].task = "general"
        /\ rc[t].key = "general|llama-3.1-8b-instant|p"

\* The SDK and the API key of provider p are present.
Ready(p) == IF p = "gemini" THEN GENAI_READY ELSE GROQ_READY

\* Thread t is inside bucket.consume.
InConsume(t) == pc[t] \in {"acquire", "refill", "check", "subtract"}

\* C17: an adapter checks its configuration first, then tries to consume one
\* token, then makes the remote call.  An adapter whose credentials or SDK
\* are missing fails without calling consume (the bucket is left as it is)
\* and without a remote call, on every invocation.
C17_AdapterStepOrder ==
    /\ [](\A t \in Callers :
            LET f == rc[t]
            IN /\ \A k \in 1..Len(f.outcomes) :
                    /\ (f.outcomes[k].kind = "config") = ~Ready(f.outcomes[k].p)
                    /\ f.outcomes[k].kind = "config" =>
                          (f.outcomes[k].req = NoRequest /\ f.outcomes[k].text = None)
               /\ (InConsume(t) \/ pc[t] \in {"consumed", "remote", "write"}) =>
                      Ready(f.providers[f.i])
               /\ pc[t] \in {"remote", "write"} => (cret[t] /\ f.tokens >= 1)
               /\ f.remote <= f.tokens
               /\ f.req # NoRequest => f.remote >= 1)
    /\ [](\A p \in {"gemini", "groq"} : ~Ready(p) => remotes[p] = 0)
    /\ []((~Ready("gemini") /\ ~Ready("groq")) =>
            /\ avail = << >>
            /\ bucket.last = 0 /\ bucket.lock = NoThread
            /\ \A e \in Epochs : granted[e] = 0 /\ denied[e] = 0)
    /\ [][(bucket' # bucket \/ granted' # granted \/ denied' # denied) =>
            \E t \in Callers : InConsume(t) /\ Ready(rc[t].providers[rc[t].i])]_vars
    /\ [][\A t \in Callers :
            (/\ Len(rc'[t].outcomes) = Len(rc[t].outcomes) + 1
             /\ rc'[t].outcomes[Len(rc'[t].outcomes)].kind = "config") =>
                /\ pc[t] = "try"
                /\ bucket' = bucket
                /\ granted' = granted /\ denied' = denied
                /\ remotes' = remotes]_vars

\* C17 witness: gemini is not configured and has failed in both calls without
\* a remote call, while groq has taken both tokens of the bucket.
C17_Witness ==
    /\ ~Ready("gemini") /\ Ready("groq")
    /\ \A t \in Callers :
          /\ Len(rc[t].outcomes) >= 1
          /\ rc[t].outcomes[1].p = "gemini"
          /\ rc[t].outcomes[1].kind = "config"
    /\ remotes["gemini"] = 0
    /\ remotes["groq"] = 2
    /\ granted[0] = 2

\* C18: when consume returns False for an adapter, the adapter fails at once:
\* its next step is the failure, with no remote call, no further consume and
\* no wait for a refill; the router does not retry that provider in the call
\* but goes on to the next provider of the ordering or, after the last, to
\* the sentinel.
C18_RejectFast ==
    /\ [][\A t \in Callers :
            (pc[t] = "consumed" /\ ~cret[t] /\ pc'[t] # pc[t]) =>
                /\ rc'[t].outcomes = Append(rc[t].outcomes,
                        [p |-> rc[t].providers[rc[t].i], kind |-> "ratelimit",
                         text |-> None, req |-> NoRequest])
                /\ rc'[t].remote = rc[t].remote
                /\ rc'[t].tokens = rc[t].tokens
                /\ remotes' = remotes
                /\ bucket' = bucket /\ now' = now
                /\ IF rc[t].i < Len(rc[t].providers)
                     THEN /\ pc'[t] = "try"
                          /\ rc'[t].i = rc[t].i + 1
                          /\ rc'[t].ret = None
                     ELSE /\ pc'[t] = "done"
                          /\ rc'[t].ret = "SYSTEM OVERLOAD"
                          /\ ~rc'[t].raised]_vars
    /\ [](\A t \in Callers :
            /\ \A j, k \in 1..Len(rc[t].handed) :
                  j # k => rc[t].handed[j].p # rc[t].handed[k].p
            /\ \A k \in 1..Len(rc[t].outcomes) :
                  rc[t].outcomes[k].kind = "ratelimit" =>
                      /\ rc[t].outcomes[k].p = rc[t].handed[k].p
                      /\ rc[t].outcomes[k].req = NoRequest)

\* C18 witness: the first provider of a call was denied a token, the clock
\* then moved, and the second provider got a token and answered.
C18_Witness ==
    \E t \in Callers :
        /\ Ended(t)
        /\ Len(rc[t].outcomes) = 2
        /\ rc[t].outcomes[1].kind = "ratelimit"
        /\ rc[t].outcomes[2].kind = "ok"
        /\ ticks = <<30>>
        /\ rc[t].remote = 1

RECURSIVE SumOver(_, _)
SumOver(f, S) ==
    IF S = {} THEN 0
    ELSE LET x == CHOOSE y \in S : TRUE IN f[x] + SumOver(f, S \ {x})

\* consume() calls that returned True so far, and remote calls made so far
Grants == SumOver(granted, Epochs)
RemoteCalls == remotes["gemini"] + remotes["groq"]

\* Threads whose adapter holds a token it has not yet spent on a remote call
Holding == {t \in Callers : (pc[t] = "consumed" /\ cret[t]) \/ pc[t] = "remote"}

\* C19: both adapters draw on the one bucket: in every interleaving of the
\* callers the remote calls made by gemini and groq together never exceed the
\* consume() calls that returned True (each remote call has spent one grant),
\* and a token taken by one provider is not available to the other: among the
\* calls that read one clock value the grants never exceed the whole tokens
\* the bucket then held, whichever provider asked.
C19_SingleSharedQuota ==
    /\ RemoteCalls <= Grants
    /\ RemoteCalls + Cardinality(Holding) = Grants
    /\ \A e \in Epochs :
          IF e \in DOMAIN avail
            THEN granted[e] = Min(granted[e] + denied[e], WholeTokens(avail[e]))
            ELSE granted[e] = 0 /\ denied[e] = 0
    /\ (ticks = << >> /\ 0 \in DOMAIN avail) =>
          bucket.tokens + TokenScale * granted[0] = avail[0]

\* C19 witness: the bucket held one token; gemini took it for one caller and
\* made its remote call, and groq, asked first by the other caller, was denied.
C19_Witness ==
    \E t, u \in Callers :
        /\ t # u
        /\ ticks = << >>
        /\ 0 \in DOMAIN avail /\ avail[0] = TokenScale
        /\ rc[t].handed = <<[p |-> "gemini", prompt |-> "p", model |-> None]>>
        /\ rc[t].remote = 1
        /\ Len(rc[u].outcomes) >= 1
        /\ rc[u].outcomes[1].p = "groq"
        /\ rc[u].outcomes[1].kind = "ratelimit"
        /\ remotes["gemini"] = 1 /\ remotes["groq"] = 0

\* The four terminal outcomes of a call, read off its frame
IsSimulate(f) == f.use_simulation /\ f.io = "none" /\ f.ret = Stub(f.task)
IsCacheHit(f) ==
    /\ ~f.use_simulation
    /\ f.io = "ok" /\ f.present
    /\ f.ret = f.stored
IsProviderSuccess(f) ==
    /\ ~f.use_simulation
    /\ ~(f.io = "ok" /\ f.present)
    /\ f.outcomes # << >>
    /\ f.outcomes[Len(f.outcomes)].kind = "ok"
    /\ f.ret = f.outcomes[Len(f.outcomes)].text
IsAllFailed(f) ==
    /\ ~f.use_simulation
    /\ ~(f.io = "ok" /\ f.present)
    /\ Len(f.outcomes) = Len(f.providers)
    /\ \A k \in 1..Len(f.outcomes) : f.outcomes[k].kind # "ok"
    /\ f.ret = "SYSTEM OVERLOAD"
TerminalOutcomes(f) ==
    {o \in {"SIMULATE", "CACHE_HIT", "SUCCESS", "ALL_FAILED"} :
        \/ o = "SIMULATE" /\ IsSimulate(f)
        \/ o = "CACHE_HIT" /\ IsCacheHit(f)
        \/ o = "SUCCESS" /\ IsProviderSuccess(f)
        \/ o = "ALL_FAILED" /\ IsAllFailed(f)}

\* C20: under fair scheduling every call of call_llm_router that has started
\* eventually ends, and it ends in exactly one of the four outcomes SIMULATE,
\* CACHE_HIT, provider success, ALL_FAILED, without raising; every
\* consume() that has started eventually returns True or False, and once it
\* holds the lock it decides on the tokens then in the bucket, never waiting.
C20_Termination ==
    /\ \A t \in Callers : (pc[t] \notin {"idle", "done"}) ~> Ended(t)
    /\ \A t \in Callers : InConsume(t) ~> (pc[t] = "consumed")
    /\ [](\A t \in Callers :
            Ended(t) =>
                /\ ~rc[t].raised
                /\ Cardinality(TerminalOutcomes(rc[t])) = 1)
    /\ [][\A t \in Callers :
            (pc[t] = "check" /\ pc'[t] # "check") =>
                \/ pc'[t] = "subtract" /\ bucket.tokens >= TokenScale
                \/ pc'[t] = "consumed" /\ ~cret'[t] /\ bucket.tokens < TokenScale]_vars

\* C20 witness: two calls met at an empty bucket; both have ended, one by a
\* cache hit and one with every provider failed, a rate-limit denial among
\* the failures.
C20_Witness ==
    \E t, u \in Callers :
        /\ Ended(t) /\ Ended(u)
        /\ TerminalOutcomes(rc[t]) = {"CACHE_HIT"}
        /\ TerminalOutcomes(rc[u]) = {"ALL_FAILED"}
        /\ \E k \in 1..2 : rc[u].outcomes[k].kind = "ratelimit"
        /\ bucket.tokens = 0

\* The kinds of outcome of an adapter attempt that was granted a token
TokenKinds == {"remote", "ok", "write_error"}

\* The attempts of frame f, ended or under way, that were granted a token
GrantedAttempts(t) ==
    Cardinality({k \in 1..Len(rc[t].outcomes) : rc[t].outcomes[k].kind \in TokenKinds})
      + (IF pc[t] \in {"remote", "write"} THEN 1 ELSE 0)

\* C26: one call invokes each provider at most once, makes at most two
\* remote calls and consumes at most two tokens: exactly one for each adapter
\* attempt that passed its configuration check and was granted a token, none
\* for the others; a token spent on a remote call that fails is not given
\* back (no step puts tokens into the bucket while the clock stands still).
C26_PerCallBound ==
    /\ [](\A t \in Callers :
            LET f == rc[t]
            IN /\ Len(f.handed) <= 2
               /\ \A j, k \in 1..Len(f.handed) :
                     j # k => f.handed[j].p # f.handed[k].p
               /\ f.remote <= 2
               /\ f.tokens <= 2
               /\ f.tokens = GrantedAttempts(t)
               /\ f.remote = f.tokens - (IF pc[t] = "remote" THEN 1 ELSE 0)
               /\ \A k \in 1..Len(f.outcomes) :
                     f.outcomes[k].kind \in TokenKinds => Ready(f.outcomes[k].p))
    /\ [](0 \in DOMAIN avail =>
            bucket.tokens = avail[0] - TokenScale * SumOver(granted, Epochs))
    /\ [][bucket'.tokens <= bucket.tokens]_vars
    /\ [][\A t \in Callers :
            (/\ Len(rc'[t].outcomes) = Len(rc[t].outcomes) + 1
             /\ rc'[t].outcomes[Len(rc'[t].outcomes)].kind = "remote") =>
                 /\ bucket' = bucket
                 /\ rc'[t].tokens = rc[t].tokens]_vars

\* C26 witness: both providers of a call were granted a token and both
\* remote calls failed: two tokens are gone from the bucket and the call has
\* returned the sentinel.
C26_Witness ==
    \E t \in Callers :
        /\ Ended(t)
        /\ Len(rc[t].outcomes) = 2
        /\ rc[t].outcomes[1].kind = "remote"
        /\ rc[t].outcomes[2].kind = "remote"
        /\ rc[t].tokens = 2 /\ rc[t].remote = 2
        /\ avail[0] = 2 * TokenScale
        /\ bucket.tokens = 0
        /\ rc[t].ret = "SYSTEM OVERLOAD"

\* The tokens the bucket held before the first call (the clock stands still)
InitialLevel == IF 0 \in DOMAIN avail THEN avail[0] ELSE bucket.tokens

\* Call t made no remote call, wrote nothing and returned the sentinel.
Refused(t) ==
    /\ rc[t].remote = 0 /\ rc[t].tokens = 0
    /\ rc[t].wrote = 0
    /\ rc[t].ret = "SYSTEM OVERLOAD"
    /\ ~rc[t].raised

\* C28: with less than one token in the bucket and no time elapsing, a call
\* that misses the cache makes no remote call to either provider, leaves the
\* cache as it is and returns the sentinel, even with both providers
\* configured; the same holds for a call that finds the bucket emptied by an
\* earlier call (the remote calls of all calls together never exceed the
\* whole tokens the bucket held, and a call without a token ends refused).
C28_ExhaustedBucket ==
    /\ [](InitialLevel < TokenScale =>
            /\ RemoteCalls = 0
            /\ cache = << >>
            /\ bucket.tokens = InitialLevel
            /\ \A t \in Callers : Ended(t) => Refused(t))
    /\ [](RemoteCalls <= WholeTokens(InitialLevel))
    /\ [](\A t \in Callers :
            (Ended(t) /\ ~(rc[t].io = "ok" /\ rc[t].present) /\ rc[t].tokens = 0)
                => Refused(t))
    /\ [][\A t \in Callers :
            (pc[t] = "check" /\ pc'[t] # "check" /\ bucket.tokens < TokenScale) =>
                (pc'[t] = "consumed" /\ ~cret'[t] /\ cache' = cache)]_vars

\* C28 witness: the bucket holds half a token, both providers are configured,
\* and a call that missed the cache was denied by both adapters and has
\* returned the sentinel; the cache is empty and no remote call was made.
C28_Witness ==
    \E t \in Callers :
        /\ InitialLevel = TokenScale \div 2
        /\ Ready("gemini") /\ Ready("groq")
        /\ Ended(t)
        /\ Missed(rc[t])
        /\ Len(rc[t].outcomes) = 2
        /\ rc[t].outcomes[1].kind = "ratelimit"
        /\ rc[t].outcomes[2].kind = "ratelimit"
        /\ Refused(t)
        /\ RemoteCalls = 0
        /\ cache = << >>

\* The router has returned the sentinel to the caller that runs in thread t.
GotSentinel(t) ==
    /\ host[t].fn # "none"
    /\ pc[t] = "done"
    /\ ~rc[t].raised
    /\ rc[t].ret = "SYSTEM OVERLOAD"

Documents == Stored(profiles_collection) \cup Stored(resumes_collection)

\* C30: when call_llm_router returns the sentinel to
\* structure_and_store_profile or to generate_resume_from_profile, the caller
\* raises ValueError and inserts nothing: the step that handles the sentinel
\* leaves both collections as they are, and no stored profile or resume
\* document was parsed from the sentinel.
C30_SentinelNeverStored ==
    /\ [](\A t \in Callers :
            (GotSentinel(t) /\ host[t].stage # "calling") =>
                /\ host[t].stage = "raised"
                /\ host[t].exc = "ValueError"
                /\ host[t].inserted = 0)
    /\ [](\A d \in Documents : d.text # "SYSTEM OVERLOAD")
    /\ [][\A t \in Callers :
            (GotSentinel(t) /\ host'[t] # host[t]) =>
                /\ host'[t].exc = "ValueError"
                /\ profiles_collection' = profiles_collection
                /\ resumes_collection' = resumes_collection]_vars

\* C30 witness: one thread ran structure_and_store_profile and the other
\* generate_resume_from_profile, the router returned the sentinel to both,
\* both raised ValueError, and the collections hold what they held before.
C30_Witness ==
    \E t, u \in Callers :
        /\ host[t].fn = "structure_and_store_profile"
        /\ host[u].fn = "generate_resume_from_profile"
        /\ GotSentinel(t) /\ GotSentinel(u)
        /\ rc[t].task = "profile_structuring"
        /\ rc[u].task = "resume_generation"
        /\ host[t].stage = "raised" /\ host[t].exc = "ValueError"
        /\ host[u].stage = "raised" /\ host[u].exc = "ValueError"
        /\ profiles_collection = EarlierProfiles
        /\ resumes_collection = << >>

----------------------------------------------------------------------------
(* Claims about the cache file *)

\* The step is thread t's successful write of its result.
Wrote(t) == rc'[t].wrote = rc[t].wrote + 1

\* C21: over any sequence of calls a key that is present in the cache stays
\* present, and a write to a key replaces whatever text it held by exactly
\* the new text; an entry changes only by such a write.
C21_CacheLifecycle ==
    /\ [][\A k \in DOMAIN cache : k \in DOMAIN cache']_vars
    /\ [][\A t \in Callers :
            Wrote(t) =>
                /\ CallKey(rc[t]) \in DOMAIN cache'
                /\ cache'[CallKey(rc[t])] = rc[t].result]_vars
    /\ [][\A k \in DOMAIN cache :
            cache'[k] # cache[k] =>
                \E t \in Callers :
                    Wrote(t) /\ k = CallKey(rc[t]) /\ cache'[k] = rc[t].result]_vars

\* C21 witness: two calls wrote the same key, one the text "a1" and one the
\* text " a2\n"; the key holds " a2\n" alone.
C21_Witness ==
    \E t, u \in Callers :
        /\ t # u
        /\ rc[t].key = rc[u].key
        /\ rc[t].wrote = 1 /\ rc[t].ret = "a1"
        /\ rc[u].wrote = 1 /\ rc[u].ret = " a2\n"
        /\ DOMAIN cache = {rc[t].key}
        /\ cache[rc[t].key] = " a2\n"

\* The texts the adapters of the model can return
ProviderTexts == {"a1", "a2", " a2\n"}

\* C22: the cache is written only on provider success: every step that
\* changes the cache is the write of a call whose provider invocation has just
\* returned a text, it stores that text and the call returns it; the
\* SIMULATE, CACHE_HIT and ALL_FAILED paths write nothing, and the sentinel
\* is never stored.
C22_WrittenOnlyOnSuccess ==
    /\ [][cache' # cache =>
            \E t \in Callers :
                /\ pc[t] = "write" /\ pc'[t] = "done"
                /\ rc[t].remote >= 1
                /\ rc[t].req # NoRequest
                /\ rc[t].result \in ProviderTexts
                /\ cache'[CallKey(rc[t])] = rc[t].result
                /\ rc'[t].ret = rc[t].result
                /\ \A k \in DOMAIN cache' :
                      k # CallKey(rc[t]) => (k \in DOMAIN cache /\ cache'[k] = cache[k])]_vars
    /\ [](\A t \in Callers :
            (Ended(t) /\ (IsSimulate(rc[t]) \/ IsCacheHit(rc[t]) \/ IsAllFailed(rc[t])))
                => rc[t].wrote = 0)
    /\ [](\A k \in DOMAIN cache :
            cache[k] \in ProviderTexts /\ cache[k] # "SYSTEM OVERLOAD")

\* C22 witness: a call whose first provider answered and whose write failed,
\* and whose second provider failed, has returned the sentinel and the cache
\* is still empty.
C22_Witness ==
    \E t \in Callers :
        /\ Ended(t)
        /\ IsAllFailed(rc[t])
        /\ rc[t].outcomes[1].kind = "write_error"
        /\ rc[t].outcomes[2].kind = "remote"
        /\ rc[t].ret = "SYSTEM OVERLOAD"
        /\ cache = << >>

\* C23: nothing de-duplicates concurrent calls with one key: a lookup misses
\* whenever the store does not hold the key, whatever another call with the
\* same key is doing, so two calls that both look up before either writes
\* can both miss, both consume a token and both invoke a provider; each then
\* writes the key whether or not the other already has, and the entry left
\* is the text written last.
C23_NoSingleFlight ==
    /\ [][\A t \in Callers :
            (/\ pc[t] = "lookup" /\ pc'[t] # "lookup"
             /\ CallKey(rc[t]) \notin DOMAIN cache) =>
                (pc'[t] = "try" /\ rc'[t].ret = None)]_vars
    /\ [][\A t, u \in Callers :
            (/\ t # u
             /\ rc[u].wrote = 1
             /\ rc[u].key = rc[t].key
             /\ Wrote(t)) =>
                 /\ cache[rc[t].key] = rc[u].ret
                 /\ cache'[rc[t].key] = rc[t].result
                 /\ rc'[t].ret = rc[t].result]_vars
    /\ [](\A t, u \in Callers :
            (/\ t # u
             /\ rc[t].key # None /\ rc[t].key = rc[u].key
             /\ rc[t].wrote = 1 /\ rc[u].wrote = 1) =>
                 cache[rc[t].key] \in {rc[t].ret, rc[u].ret})

\* C23 witness: two calls with one key both missed, each consumed a token and
\* each made a remote call to gemini; both wrote, and the key holds the text
\* of the second writer, which differs from the first writer's.
C23_Witness ==
    \E t, u \in Callers :
        /\ t # u
        /\ rc[t].key = rc[u].key
        /\ Missed(rc[t]) /\ Missed(rc[u])
        /\ rc[t].tokens = 1 /\ rc[u].tokens = 1
        /\ rc[t].remote = 1 /\ rc[u].remote = 1
        /\ remotes["gemini"] = 2
        /\ rc[t].wrote = 1 /\ rc[u].wrote = 1
        /\ rc[t].ret = " a2\n" /\ rc[u].ret = "a1"
        /\ cache[rc[t].key] = "a1"
        /\ bucket.tokens = 0

\* Frames f and g are calls for the same task, prompt and override.
SameRequest(f, g) ==
    /\ f.key # None /\ g.key # None
    /\ f.task = g.task /\ f.prompt = g.prompt
    /\ f.model_override = g.model_override

\* Exactly one of the two frames prefers the secondary.
DifferInPrefer(f, g) == (f.prefer = "groq") # (g.prefer = "groq")

\* A hit of call u is on an entry written by the other call, which had the
\* same key.
HitOnOthersEntry(u) ==
    \E t \in Callers :
        /\ t # u
        /\ rc[t].wrote = 1
        /\ rc[t].key = rc[u].key
        /\ rc[u].ret = rc[t].ret

\* C29, as stated: when model_override is supplied (is not None) the key does
\* not depend on prefer, so requests that differ only in prefer share the
\* entry; with no override, requests that differ in preferring the secondary
\* have different keys and never share an entry.
C29_PreferAndSharingAsStated ==
    \A t, u \in Callers :
        SameRequest(rc[t], rc[u]) =>
            /\ rc[t].model_override # None => rc[t].key = rc[u].key
            /\ (rc[t].model_override = None /\ DifferInPrefer(rc[t], rc[u])) =>
                  rc[t].key # rc[u].key

\* C29, amended: when a non-empty model_override is supplied the key does not
\* depend on prefer, so an entry written by a request with one preference is
\* a cache hit for a later request with the other preference; with no
\* override or an empty one (the default models differ), requests that
\* differ only in preferring the secondary have different keys and never
\* share an entry.
C29_PreferAndSharing ==
    /\ \A t, u \in Callers :
          SameRequest(rc[t], rc[u]) =>
              /\ rc[t].model_override \notin {None, ""} => rc[t].key = rc[u].key
              /\ (rc[t].model_override \in {None, ""} /\ DifferInPrefer(rc[t], rc[u])) =>
                    rc[t].key # rc[u].key
    /\ \A u \in Callers :
          (Ended(u) /\ rc[u].io = "ok" /\ rc[u].present) =>
              /\ HitOnOthersEntry(u)
              /\ \A t \in Callers :
                    (/\ SameRequest(rc[t], rc[u])
                     /\ rc[t].model_override \in {None, ""}
                     /\ DifferInPrefer(rc[t], rc[u])) => rc[t].wrote = 0 \/ t = u
    /\ \A t, u \in Callers :
          (/\ t # u
           /\ SameRequest(rc[t], rc[u])
           /\ rc[t].model_override \notin {None, ""}
           /\ rc[t].wrote = 1
           /\ pc[u] = "done" /\ rc[u].io = "ok" /\ rc[u].outcomes = << >>) =>
               (rc[u].present => rc[u].ret = rc[t].ret)

\* C29 witness: a call with override "m" and no preference wrote its entry,
\* and a later call with override "m" that prefers groq got that entry as a
\* cache hit.
C29_Witness ==
    \E t, u \in Callers :
        /\ t # u
        /\ rc[t].model_override = "m" /\ rc[t].prefer = None
        /\ rc[t].wrote = 1
        /\ rc[u].model_override = "m" /\ rc[u].prefer = "groq"
        /\ Ended(u)
        /\ rc[u].io = "ok" /\ rc[u].present
        /\ rc[u].ret = rc[t].ret
        /\ rc[u].outcomes = << >>

\* C27: every text stored under the key of (task, model, prompt) was produced
\* by a provider invocation that used that same model: the request whose
\* answer a call writes names the model of the call's key.
C27_EntryMatchesKeyModel ==
    \A t \in Callers :
        LET f == rc[t]
        IN /\ pc[t] = "write" => f.req.model = f.model
           /\ \A k \in 1..Len(f.outcomes) :
                 f.outcomes[k].kind = "ok" => f.outcomes[k].req.model = f.model

----------------------------------------------------------------------------
(* Claims about _cache_key *)

\* C10: two distinct triples (task, model, prompt) never give the same hashed
\* string, hence never the same key, whatever strings they hold.
C10_DistinctTriplesDistinctKeys ==
    (kt.ka # None /\ kt.a # kt.b) => (kt.sa # kt.sb /\ kt.ka # kt.kb)

====
